---- MODULE Spec2Model ----
(***************************************************************************)
(* The annotation backend as a state machine: the assignment load-balancer *)
(* (GET /api/participant/:id/slices of src/server.js and of the callback-   *)
(* style src/unnamed/part_001) and the annotation log with its spreadsheet *)
(* mirror (POST /api/annotations of src/server.js and src/unnamed/part_000).*)
(*                                                                         *)
(* Every `await` of the handler is a suspension point: the single-threaded *)
(* event loop runs the code between two awaits atomically, and any other   *)
(* in-flight request may run between them.  One action of the model is one *)
(* storage round-trip together with the synchronous code that follows it.  *)
(***************************************************************************)
EXTENDS Integers, Sequences, FiniteSets, Bags, TLC

\* ------------------------------------------------------------------ bounds
\* Size of the largest catalog (slice ids are 1..m, m \in 0..MaxSlices).
MaxSlices == 4
\* Number of HTTP requests of one run (each request slot is used once).
MaxRequests == 2
\* Number of annotation submissions of one run.
MaxSubmissions == 2
\* Number of export requests of one run.
MaxExports == 1
\* Length of the longest input of the catalog loader; explicit record ids
\* are 1..MaxRecords.
MaxRecords == 2
\* const SLICES_PER_PARTICIPANT = 15 in the handler.  The model scales the
\* batch size down so that catalogs smaller than, equal to and larger than
\* one batch are all within MaxSlices.
SLICES_PER_PARTICIPANT == 2

Requests == 1..MaxRequests
\* Each request may come from a participant not seen before.
Participants == 1..MaxRequests
Submissions == 1..MaxSubmissions

VARIABLES
  slices,            \* table slices: the set of catalog ids (id is the PK)
  payload,           \* table slices: per id, the stored focus_turns and
                     \* hybrid_predictions TEXT columns
  assignments,       \* table assignments: bag of rows <<participant_id, slice_id>>
  pc,                \* per request: where the handler is suspended
  participantId,     \* per request: req.params.id
  allSliceIds,       \* per request: result of getAllSliceIds()
  sliceCounts,       \* per request: result of getSliceCounts(), zero-filled
  assignedSliceIds,  \* per request: the resolved id list
  cursor,            \* per request: position of the insert loop
  branch,            \* per request: which arm of `existing.length > 0` ran
  written,           \* per request: slice ids whose INSERT succeeded (history)
  stmtQueue,         \* per request: slice ids of the stmt.run calls queued on
                     \* the prepared statement (callback-style server only)
  response,          \* per request: what res.json / res.status(500) sent
  server,            \* which server file runs: "server.js", "part_000" (the
                     \* one that mirrors annotations to a spreadsheet) or
                     \* "part_001" (the callback-style one)
  sheetsReady,       \* GoogleSheetsService: whether this.sheets and
                     \* this.spreadsheetId are set
  annotations,       \* table annotations: the rows in id order
  sheet,             \* the spreadsheet: the appended rows in order
  apc,               \* per submission: where POST /api/annotations is suspended
  body,              \* per submission: req.body
  sheetsSaved,       \* per submission: result of sheetsService.saveAnnotation
  wrote,             \* per submission: id of the log row and index of the sheet
                     \* row it created, 0 for none (history)
  reply,             \* per submission: what res.json / res.status(...) sent
  epc,               \* where GET /api/export is suspended
  exports,           \* number of export requests answered
  exportReply,       \* what the last export request was answered with
  lpc,               \* where the catalog loader (insertSlices) is
  trigger,           \* what started the loader: "script" (node on the setup
                     \* script) or "/api/setup" (the endpoint of part_000)
  loader,            \* the file whose insertSlices runs
  records,           \* the loader's input: the records of loadSlicesFromFile()
  index,             \* the loader's position in its input
  before,            \* the three tables when the loader started (history)
  inserted           \* ids of the rows that the loader's INSERTs added to
                     \* table slices since its DELETE FROM slices, in order

\* The state of the catalog loader.
reloadVars == <<lpc, trigger, loader, records, index, before, inserted>>

\* The state of GET /api/export, and of the loader.
exportVars == <<epc, exports, exportReply, reloadVars>>

\* The state of POST /api/annotations and of what it writes, and of the
\* operational endpoints.
logVars ==
  <<server, sheetsReady, annotations, sheet, apc, body, sheetsSaved, wrote, reply,
    exportVars>>

vars == <<slices, payload, assignments, pc, participantId, allSliceIds, sliceCounts,
          assignedSliceIds, cursor, branch, written, stmtQueue, response, logVars>>

\* ----------------------------------------------------------------- helpers
Min(a, b) == IF a <= b THEN a ELSE b

Range(q) == {q[i] : i \in 1..Len(q)}

\* All orderings of a finite set, as sequences.
Orderings(S) ==
  {q \in [1..Cardinality(S) -> S] : \A i, j \in 1..Cardinality(S) : q[i] = q[j] => i = j}

\* JSON.stringify(v): the JSON text of a value, written between quotes as
\* an SQL text literal; JSON.stringify(undefined) is undefined, which is
\* bound as NULL.
JSONStringify(v) == IF v = "undefined" THEN "NULL" ELSE "'" \o v \o "'"

\* The structured values that occur: arrays and objects of request bodies
\* and of slice records.
JSONValues ==
  {"[]", "{}", "null", "[x]", "[c]", "{r}", "[turn]", "[turn,turn]",
   "{predictions}", "{derived}", "{model}"}

\* A stored TEXT column: NULL or '' ("absent"), the JSON.stringify of a
\* structured value, or text that is not JSON ("malformed").
StoredTexts(value) == {"absent", JSONStringify(value), "malformed"}

WellFormed ==
  [focus_turns |-> JSONStringify("[turn,turn]"),
   hybrid_predictions |-> JSONStringify("{predictions}")]

\* stored || fallback
OrDefault(stored, fallback) == IF stored = "absent" THEN fallback ELSE stored

\* JSON.parse(text): the structured value of a JSON text; any other text
\* throws SyntaxError.
JSONParse(text) ==
  IF \E v \in JSONValues : JSONStringify(v) = text
  THEN CHOOSE v \in JSONValues : JSONStringify(v) = text
  ELSE "SyntaxError"

\* status, participant_id, slices and total are what the client receives
\* (a 500 body has only { error: 'Server error' }: participant_id 0, no
\* slices and total 0 stand for the absent fields); error is the rejection
\* the catch block logged with console.error.
NoResponse ==
  [status |-> 0, participant_id |-> 0, slices |-> <<>>, total |-> 0, error |-> "none"]

ServerError(e) ==
  [status |-> 500, participant_id |-> 0, slices |-> <<>>, total |-> 0, error |-> e]

\* res.json({ participant_id: participantId, slices: slicesData,
\*            total: slicesData.length })
Success(p, slicesData) ==
  [status |-> 200, participant_id |-> p, slices |-> slicesData,
   total |-> Len(slicesData), error |-> "none"]

\* Participant ids are opaque strings: the model names them 1, 2, ... in the
\* order in which they first send a request.
SeenParticipants == {participantId[r] : r \in {q \in Requests : pc[q] # "idle"}}

\* SELECT slice_id FROM assignments WHERE participant_id = ?
\* (no ORDER BY: the rows come back in an order the engine chooses)
ExistingRows(p) == {row[2] : row \in {a \in BagToSet(assignments) : a[1] = p}}

\* The result rows of that query, one per ledger row, in every order the
\* engine may return them.
RowOrders(p) ==
  LET ids == ExistingRows(p)
      n == BagCardinality([a \in {x \in BagToSet(assignments) : x[1] = p} |-> assignments[a]])
  IN {q \in [1..n -> ids] :
        \A s \in ids : Cardinality({i \in 1..n : q[i] = s}) = CopiesIn(<<p, s>>, assignments)}

\* SELECT slice_id, COUNT(*) FROM assignments GROUP BY slice_id
\* as the object counts: only slices with at least one row are keys.
CountOf(s) ==
  BagCardinality([a \in {x \in BagToSet(assignments) : x[2] = s} |-> assignments[a]])

\* Mutant of getSliceCounts: the aggregate returns no rows, so every count
\* is taken as 0.
getSliceCountsNoRows == [s \in {} |-> 0]

getSliceCounts == [s \in {a[2] : a \in BagToSet(assignments)} |-> CountOf(s)]

\* SELECT id FROM slices
getAllSliceIds == slices

\* allSliceIds.forEach(id => { if (!(id in sliceCounts)) sliceCounts[id] = 0 })
ZeroFilled(counts, ids) ==
  [s \in (DOMAIN counts) \cup ids |-> IF s \in DOMAIN counts THEN counts[s] ELSE 0]

\* Mutant of SortOutcomes: a comparator that is random for every pair, so
\* the counts no longer rank the ids.
SortOutcomesUnranked(ids, counts) == Orderings(ids)

\* allSliceIds.sort((a, b) => countDiff === 0 ? Math.random() - 0.5 : countDiff)
\* The comparator is exact for unequal counts and random for equal ones, so
\* the engine's insertion/merge sort leaves the array ordered by count with
\* every tie in an order the random draws decide.
SortOutcomes(ids, counts) ==
  {q \in Orderings(ids) : \A i, j \in 1..Len(q) : i < j => counts[q[i]] <= counts[q[j]]}

\* Mutant of Slice: slice(0, SLICES_PER_PARTICIPANT + 1), one id too many.
SliceOneTooMany(q, n) == SubSeq(q, 1, Min(n + 1, Len(q)))

\* sortedSlices.slice(0, SLICES_PER_PARTICIPANT)
Slice(q, n) == SubSeq(q, 1, Min(n, Len(q)))

\* SELECT * FROM slices WHERE id IN (...assignedSliceIds)
SliceRows(ids) ==
  {[id |-> s, focus_turns |-> payload[s].focus_turns,
    hybrid_predictions |-> payload[s].hybrid_predictions] : s \in slices \cap Range(ids)}

\* { ...slice, focus_turns: JSON.parse(slice.focus_turns || '[]'),
\*   hybrid_predictions: JSON.parse(slice.hybrid_predictions || '{}') }
Hydrate(slice) ==
  [id |-> slice.id,
   focus_turns |-> JSONParse(OrDefault(slice.focus_turns, "'[]'")),
   hybrid_predictions |-> JSONParse(OrDefault(slice.hybrid_predictions, "'{}'"))]

\* Mutant of SlicesData: the records in the order of the catalog ids, not
\* of the resolved id list.
SlicesDataCatalogOrder(ids, sliceRows) ==
  LET sorted == CHOOSE q \in Orderings(Range(ids)) :
                  \A i, j \in 1..Len(q) : i < j => q[i] < q[j]
  IN [i \in 1..Len(sorted) |->
        Hydrate(CHOOSE slice \in sliceRows : slice.id = sorted[i])]

\* assignedSliceIds.map(id => { const slice = sliceRows.find(s => s.id === id);
\*                               return {...} })
SlicesData(ids, sliceRows) ==
  [i \in 1..Len(ids) |-> Hydrate(CHOOSE slice \in sliceRows : slice.id = ids[i])]

\* JSON.parse threw for a column of one of the records.
ParseFailed(slicesData) ==
  \E i \in 1..Len(slicesData) :
    \/ slicesData[i].focus_turns = "SyntaxError"
    \/ slicesData[i].hybrid_predictions = "SyntaxError"

\* ------------------------------------------------------------------- Init
\* No request has arrived.
NoRequests ==
  /\ pc = [r \in Requests |-> "idle"]
  /\ participantId = [r \in Requests |-> 0]
  /\ allSliceIds = [r \in Requests |-> {}]
  /\ sliceCounts = [r \in Requests |-> <<>>]
  /\ assignedSliceIds = [r \in Requests |-> <<>>]
  /\ cursor = [r \in Requests |-> 1]
  /\ branch = [r \in Requests |-> "none"]
  /\ written = [r \in Requests |-> {}]
  /\ stmtQueue = [r \in Requests |-> <<>>]
  /\ response = [r \in Requests |-> NoResponse]

\* Participant and slice ids are strings: the string of the participant or
\* slice the model numbers n.
Name(n) == ToString(n)

\* The participant the model numbers n has the id Name(n); TEXT ids compare
\* as their numbers do.
Rank(id) == CHOOSE n \in 1..(MaxRequests + 1) : Name(n) = id

\* annotation_time_seconds of a body: <<>> when the field is not in the
\* body, <<n>> for the number n.  The same encoding serves the stored
\* INTEGER column, with <<>> for NULL.
Seconds == {<<>>, <<0>>, <<30>>, <<-5>>}

NoBody ==
  [participant_id |-> "undefined", slice_id |-> "undefined",
   interaction_types |-> "undefined", curiosity_types |-> "undefined",
   routing_validation |-> "undefined", annotation_time_seconds |-> <<>>]

\* Bodies that vary the required fields: a field that is not in the body
\* reads as undefined; interaction_types may also be null, [] or a
\* non-empty array.
RequiredCases ==
  {[NoBody EXCEPT !.participant_id = p, !.slice_id = s, !.interaction_types = x] :
     p \in {"undefined", Name(1)}, s \in {"undefined", Name(1)},
     x \in {"undefined", "null", "[]", "[x]"}}

\* Bodies with the required fields that vary the optional ones.
OptionalCases ==
  {[participant_id |-> Name(1), slice_id |-> Name(1), interaction_types |-> "[x]",
    curiosity_types |-> c, routing_validation |-> v, annotation_time_seconds |-> t] :
     c \in {"undefined", "[c]"}, v \in {"undefined", "{r}"}, t \in Seconds}

\* req.body of a submission.
Bodies == RequiredCases \cup OptionalCases

\* saved_to_sheets is "absent" where the body sent has no such field.
NoReply == [status |-> 0, success |-> FALSE, saved_to_sheets |-> "absent"]

\* res.status(400).json({ error: 'Missing required fields' })
ClientError == [status |-> 400, success |-> FALSE, saved_to_sheets |-> "absent"]

\* res.status(500).json({ error: 'Failed to save annotation' })
SaveFailed == [status |-> 500, success |-> FALSE, saved_to_sheets |-> "absent"]

\* res.json({ success: true, message: ... }) of server.js
Saved == [status |-> 200, success |-> TRUE, saved_to_sheets |-> "absent"]

\* res.json({ success: true, message: ..., saved_to_sheets: sheetsSaved })
SavedWithFlag(flag) ==
  [status |-> 200, success |-> TRUE,
   saved_to_sheets |-> IF flag THEN "true" ELSE "false"]

\* No export request was answered yet.
NoExport == [status |-> 0, rows |-> <<>>]

\* The loader has not run.
NoReload ==
  /\ lpc = "idle"
  /\ trigger = "none"
  /\ loader = "none"
  /\ records = <<>>
  /\ index = 1
  /\ before = <<>>
  /\ inserted = <<>>

\* No submission has arrived.
\* GoogleSheetsService after its constructor: this.sheets is the client that
\* initializeSheets built (null when it threw), this.spreadsheetId is
\* process.env.GOOGLE_SHEET_ID.
NotConfigured == [sheets |-> FALSE, spreadsheetId |-> FALSE]

Configured == [sheets |-> TRUE, spreadsheetId |-> TRUE]

\* Mutant of SheetsAvailable: one of the two is enough.
SheetsAvailableEither(service) == service.sheets \/ service.spreadsheetId

\* The negation of `!this.sheets || !this.spreadsheetId`.
SheetsAvailable(service) == service.sheets /\ service.spreadsheetId

NoSubmissions ==
  /\ annotations = <<>>
  /\ sheet = <<>>
  /\ apc = [u \in Submissions |-> "idle"]
  /\ body = [u \in Submissions |-> NoBody]
  /\ sheetsSaved = [u \in Submissions |-> FALSE]
  /\ wrote = [u \in Submissions |-> [log |-> 0, sheet |-> 0, appends |-> 0]]
  /\ reply = [u \in Submissions |-> NoReply]
  /\ epc = "idle"
  /\ exports = 0
  /\ exportReply = NoExport
  /\ NoReload

\* Every catalog row was written by the seeding script, which stores
\* JSON.stringify of both columns.
Init ==
  /\ slices \in {1..m : m \in 0..MaxSlices}
  /\ payload = [s \in slices |-> WellFormed]
  /\ assignments = EmptyBag
  /\ NoRequests
  /\ server = "server.js"
  /\ sheetsReady = NotConfigured
  /\ NoSubmissions

\* One of the server files runs; the one with the mirror has its
\* spreadsheet client and sheet id configured, or not.
InitAnnotations ==
  /\ slices \in {1..m : m \in 0..MaxSlices}
  /\ payload = [s \in slices |-> WellFormed]
  /\ assignments = EmptyBag
  /\ NoRequests
  /\ server \in {"server.js", "part_000", "part_001"}
  /\ sheetsReady \in IF server = "part_000"
                      THEN [sheets : BOOLEAN, spreadsheetId : BOOLEAN]
                      ELSE {NotConfigured}
  /\ NoSubmissions

\* The database file is shared with whatever else writes it: a catalog in
\* which at most one row has a column that is absent or not JSON.
InitStored ==
  /\ slices \in {1..m : m \in 0..MaxSlices}
  /\ payload \in {f \in [slices -> [focus_turns : StoredTexts("[turn,turn]"),
                                     hybrid_predictions : StoredTexts("{predictions}")]] :
                    Cardinality({s \in slices : f[s] # WellFormed}) <= 1}
  /\ assignments = EmptyBag
  /\ NoRequests
  /\ server = "server.js"
  /\ sheetsReady = NotConfigured
  /\ NoSubmissions

\* ---------------------------------------------------------------- actions
\* res.json(...) or res.status(500).json(...): the handler returns, and its
\* working locals go out of scope.  assignedSliceIds is kept as the record
\* of what the request resolved.
Respond(r, resp) ==
  /\ pc' = [pc EXCEPT ![r] = "done"]
  /\ response' = [response EXCEPT ![r] = resp]
  /\ allSliceIds' = [allSliceIds EXCEPT ![r] = {}]
  /\ sliceCounts' = [sliceCounts EXCEPT ![r] = <<>>]
  /\ cursor' = [cursor EXCEPT ![r] = 1]

\* A request arrives; the handler issues the query for existing assignments.
\* Request slots are taken in order.
Receive(r, p) ==
  /\ pc[r] = "idle"
  /\ \A q \in Requests : q < r => pc[q] # "idle"
  /\ p <= Cardinality(SeenParticipants) + 1
  /\ pc' = [pc EXCEPT ![r] = "existing"]
  /\ participantId' = [participantId EXCEPT ![r] = p]
  /\ UNCHANGED <<logVars, slices, payload, stmtQueue, assignments, allSliceIds, sliceCounts,
                 assignedSliceIds, cursor, branch, written, response>>

\* Mutant of CheckExisting: the existing rows are ignored and a batch is
\* computed for every request.
CheckExistingIgnored(r) ==
  /\ pc[r] = "existing"
  /\ pc' = [pc EXCEPT ![r] = "ids"]
  /\ branch' = [branch EXCEPT ![r] = "new"]
  /\ UNCHANGED <<logVars, slices, payload, stmtQueue, assignments, participantId, allSliceIds, sliceCounts,
                 assignedSliceIds, cursor, written, response>>

\* const existing = await db.query(...); if (existing.length > 0) ... else ...
CheckExisting(r) ==
  /\ pc[r] = "existing"
  /\ LET existing == ExistingRows(participantId[r]) IN
       IF existing # {}
       THEN /\ \E q \in RowOrders(participantId[r]) :
                 assignedSliceIds' = [assignedSliceIds EXCEPT ![r] = q]
            /\ pc' = [pc EXCEPT ![r] = "fetch"]
            /\ branch' = [branch EXCEPT ![r] = "existing"]
       ELSE /\ pc' = [pc EXCEPT ![r] = "ids"]
            /\ branch' = [branch EXCEPT ![r] = "new"]
            /\ UNCHANGED assignedSliceIds
  /\ UNCHANGED <<logVars, slices, payload, stmtQueue, assignments, participantId, allSliceIds, sliceCounts,
                 cursor, written, response>>

\* const allSliceIds = await getAllSliceIds();
GetAllSliceIds(r) ==
  /\ pc[r] = "ids"
  /\ allSliceIds' = [allSliceIds EXCEPT ![r] = getAllSliceIds]
  /\ pc' = [pc EXCEPT ![r] = "counts"]
  /\ UNCHANGED <<logVars, slices, payload, stmtQueue, assignments, participantId, sliceCounts,
                 assignedSliceIds, cursor, branch, written, response>>

\* const sliceCounts = await getSliceCounts(); zero-fill; sort; slice.
ComputeBatch(r) ==
  /\ pc[r] = "counts"
  /\ LET counts == ZeroFilled(getSliceCounts, allSliceIds[r]) IN
       /\ sliceCounts' = [sliceCounts EXCEPT ![r] = counts]
       /\ \E sortedSlices \in SortOutcomes(allSliceIds[r], counts) :
            LET batch == Slice(sortedSlices, SLICES_PER_PARTICIPANT) IN
              /\ assignedSliceIds' = [assignedSliceIds EXCEPT ![r] = batch]
              /\ pc' = [pc EXCEPT ![r] = IF Len(batch) = 0 THEN "fetch" ELSE "insert"]
  /\ cursor' = [cursor EXCEPT ![r] = 1]
  /\ UNCHANGED <<logVars, slices, payload, stmtQueue, assignments, participantId, allSliceIds, branch, written,
                 response>>

\* Mutant of PrimaryKeyViolated: a ledger table created without
\* PRIMARY KEY (participant_id, slice_id) accepts every row.
PrimaryKeyNotDeclared(row) == FALSE

\* PRIMARY KEY (participant_id, slice_id) of CREATE TABLE assignments: the
\* engine rejects an INSERT whose pair is already in the table.
PrimaryKeyViolated(row) == BagIn(row, assignments)

\* Mutant of InsertAssignment: the row takes the slice away from every other
\* participant that holds it.
InsertAssignmentTakesOver(r) ==
  /\ pc[r] = "insert"
  /\ LET row == <<participantId[r], assignedSliceIds[r][cursor[r]]>>
         kept == {a \in BagToSet(assignments) : a[2] # row[2] \/ a[1] = row[1]}
     IN IF PrimaryKeyViolated(row)
        THEN /\ Respond(r, ServerError("SQLITE_CONSTRAINT"))
             /\ UNCHANGED <<assignments, written>>
        ELSE /\ assignments' = [a \in kept |-> assignments[a]] (+) SetToBag({row})
             /\ written' = [written EXCEPT ![r] = @ \cup {row[2]}]
             /\ cursor' = [cursor EXCEPT ![r] = @ + 1]
             /\ pc' = [pc EXCEPT ![r] =
                         IF cursor[r] = Len(assignedSliceIds[r]) THEN "fetch" ELSE "insert"]
             /\ UNCHANGED <<response, allSliceIds, sliceCounts>>
  /\ UNCHANGED <<logVars, slices, payload, stmtQueue, participantId, assignedSliceIds, branch>>

\* One iteration of: for (const sliceId of assignedSliceIds) await db.run(INSERT)
\* A rejected INSERT rejects the promise, and the handler's catch answers 500.
InsertAssignment(r) ==
  /\ pc[r] = "insert"
  /\ LET row == <<participantId[r], assignedSliceIds[r][cursor[r]]>> IN
       IF PrimaryKeyViolated(row)
       THEN /\ Respond(r, ServerError("SQLITE_CONSTRAINT"))
            /\ UNCHANGED <<assignments, written>>
       ELSE /\ assignments' = assignments (+) SetToBag({row})
            /\ written' = [written EXCEPT ![r] = @ \cup {row[2]}]
            /\ cursor' = [cursor EXCEPT ![r] = @ + 1]
            /\ pc' = [pc EXCEPT ![r] =
                        IF cursor[r] = Len(assignedSliceIds[r]) THEN "fetch" ELSE "insert"]
            /\ UNCHANGED <<response, allSliceIds, sliceCounts>>
  /\ UNCHANGED <<logVars, slices, payload, stmtQueue, participantId, assignedSliceIds, branch>>

\* Mutant of FetchSlices: an engine that rejects the empty list of
\* `WHERE id IN ()`.
FetchSlicesRejectsEmptyList(r) ==
  /\ pc[r] = "fetch"
  /\ LET ids == assignedSliceIds[r] IN
       Respond(r, IF ids = <<>>
                  THEN ServerError("SQLITE_ERROR")
                  ELSE Success(participantId[r], SlicesData(ids, SliceRows(ids))))
  /\ UNCHANGED <<logVars, slices, payload, stmtQueue, assignments, participantId, assignedSliceIds, branch, written>>

\* const sliceRows = await db.query(SELECT * FROM slices WHERE id IN (...));
\* assignedSliceIds.map(id => sliceRows.find(...)); res.json(...).
\* A resolved id with no slice row makes slice.focus_turns throw TypeError,
\* a column that is not JSON makes JSON.parse throw SyntaxError: 500.
FetchSlices(r) ==
  /\ pc[r] = "fetch"
  /\ LET ids == assignedSliceIds[r]
         sliceRows == SliceRows(ids)
     IN Respond(r, IF ~(Range(ids) \subseteq {slice.id : slice \in sliceRows})
                   THEN ServerError("TypeError")
                   ELSE IF ParseFailed(SlicesData(ids, sliceRows))
                   THEN ServerError("SyntaxError")
                   ELSE Success(participantId[r], SlicesData(ids, sliceRows)))
  /\ UNCHANGED <<logVars, slices, payload, stmtQueue, assignments, participantId, assignedSliceIds, branch, written>>

\* Any awaited db.query / db.run may reject (storage unavailable):
\* catch (error) { res.status(500).json({ error: 'Server error' }) }
StorageError(r) ==
  /\ pc[r] \in {"existing", "ids", "counts", "insert", "fetch"}
  /\ Respond(r, ServerError("storage"))
  /\ UNCHANGED <<logVars, slices, payload, stmtQueue, assignments, participantId, assignedSliceIds, branch, written>>

Step(r) ==
  \/ CheckExisting(r)
  \/ GetAllSliceIds(r)
  \/ ComputeBatch(r)
  \/ InsertAssignment(r)
  \/ FetchSlices(r)
  \/ StorageError(r)

Next ==
  \/ \E r \in Requests, p \in Participants : Receive(r, p)
  \/ \E r \in Requests : Step(r)

Spec == Init /\ [][Next]_vars

\* Requests processed one at a time: a request is received only when every
\* earlier one has been answered.
Quiescent == \A r \in Requests : pc[r] \in {"idle", "done"}

ReceiveSeq(r, p) == Quiescent /\ Receive(r, p)

NextSeq ==
  \/ \E r \in Requests, p \in Participants : ReceiveSeq(r, p)
  \/ \E r \in Requests : Step(r)

SpecSeq == Init /\ [][NextSeq]_vars

\* Requests processed one at a time over a catalog with a defective row.
SpecStored == InitStored /\ [][NextSeq]_vars

\* ------------------------------------------- the callback-style server
\* GET /api/participant/:id/slices of src/unnamed/part_001: the same steps
\* on the raw sqlite3 handle.  The existing-rows query and the two awaited
\* reads are CheckExisting and GetAllSliceIds above; what differs is the
\* shuffle, the queued inserts and which failures reach a res.status(500).

\* The in-flight handlers.
InFlight == {r \in Requests : pc[r] \notin {"idle", "done", "unanswered"}}

\* An exception nothing catches (a rejected await inside the db.all
\* callback, a throw inside a callback): the request is never answered.
\* Depending on the runtime the process goes on, or it exits and takes every
\* in-flight request and every queued statement with it.
Uncaught(r) ==
  \/ /\ pc' = [pc EXCEPT ![r] = "unanswered"]
     /\ UNCHANGED stmtQueue
  \/ /\ pc' = [q \in Requests |-> IF q \in InFlight THEN "unanswered" ELSE pc[q]]
     /\ stmtQueue' = [q \in Requests |-> <<>>]

\* Object.keys(sliceCounts): the keys in the order they were added, first
\* the rows of the GROUP BY, then the ids the zero fill added, each in the
\* order the storage returned its rows.
ObjectKeys(rows, ids) ==
  {g \o z : g \in Orderings(DOMAIN rows), z \in Orderings(ids \ DOMAIN rows)}

IndexOf(q, x) == CHOOSE i \in 1..Len(q) : q[i] = x

\* keys.sort((a, b) => sliceCounts[a] - sliceCounts[b]): Array.prototype.sort
\* is stable, so keys of equal count stay in the order they had.
StableSort(keys, counts) ==
  CHOOSE q \in Orderings(Range(keys)) :
    \A i, j \in 1..Len(q) : i < j =>
      \/ counts[q[i]] < counts[q[j]]
      \/ counts[q[i]] = counts[q[j]] /\ IndexOf(keys, q[i]) < IndexOf(keys, q[j])

\* shuffleArray(sortedSlices.slice(0, SLICES_PER_PARTICIPANT)): the first N
\* keys of the sorted array, in any order.
LegacyBatches(keys, counts) ==
  Orderings(Range(Slice(StableSort(keys, counts), SLICES_PER_PARTICIPANT)))

\* const sliceCounts = await getSliceCounts(); zero-fill;
\* Object.keys(sliceCounts).sort(by count); shuffleArray(sorted.slice(0, N));
\* stmt.run(participantId, sliceId) for each id, with no callback;
\* db.all(SELECT * FROM slices ...) is issued in the same tick.
LegacyComputeBatch(r) ==
  /\ pc[r] = "counts"
  /\ LET counts == ZeroFilled(getSliceCounts, allSliceIds[r]) IN
       /\ sliceCounts' = [sliceCounts EXCEPT ![r] = counts]
       /\ \E keys \in ObjectKeys(getSliceCounts, allSliceIds[r]) :
            \E shuffled \in LegacyBatches(keys, counts) :
              /\ assignedSliceIds' = [assignedSliceIds EXCEPT ![r] = shuffled]
              /\ stmtQueue' = [stmtQueue EXCEPT ![r] = shuffled]
  /\ pc' = [pc EXCEPT ![r] = "fetch"]
  /\ UNCHANGED <<logVars, slices, payload, assignments, participantId, allSliceIds, cursor,
                 branch, written, response>>

\* The engine runs the next queued stmt.run.  No callback was given, so a
\* rejected INSERT is either lost or, as an 'error' event nobody listens to,
\* ends the process; the handler is never told.
LegacyStmtRun(r) ==
  /\ stmtQueue[r] # <<>>
  /\ LET row == <<participantId[r], Head(stmtQueue[r])>> IN
       \/ /\ ~PrimaryKeyViolated(row)
          /\ assignments' = assignments (+) SetToBag({row})
          /\ written' = [written EXCEPT ![r] = @ \cup {row[2]}]
          /\ stmtQueue' = [stmtQueue EXCEPT ![r] = Tail(@)]
          /\ UNCHANGED pc
       \/ /\ stmtQueue' = [stmtQueue EXCEPT ![r] = Tail(@)]
          /\ UNCHANGED <<assignments, written, pc>>
       \/ /\ pc' = [q \in Requests |-> IF q \in InFlight THEN "unanswered" ELSE pc[q]]
          /\ stmtQueue' = [q \in Requests |-> <<>>]
          /\ UNCHANGED <<assignments, written>>
  /\ UNCHANGED <<logVars, slices, payload, participantId, allSliceIds, sliceCounts,
                 assignedSliceIds, cursor, branch, response>>

\* The callback of db.all(SELECT * FROM slices WHERE id IN (...)) with rows:
\* map and res.json; a throw inside the callback is caught by nothing.
LegacyFetchSlices(r) ==
  /\ pc[r] = "fetch"
  /\ LET ids == assignedSliceIds[r]
         sliceRows == SliceRows(ids)
     IN IF /\ Range(ids) \subseteq {slice.id : slice \in sliceRows}
           /\ ~ParseFailed(SlicesData(ids, sliceRows))
        THEN /\ Respond(r, Success(participantId[r], SlicesData(ids, sliceRows)))
             /\ UNCHANGED stmtQueue
        ELSE /\ Uncaught(r)
             /\ UNCHANGED <<response, allSliceIds, sliceCounts, cursor>>
  /\ UNCHANGED <<logVars, slices, payload, assignments, participantId, assignedSliceIds,
                 branch, written>>

\* if (err) return res.status(500).json(...) in the two db.all callbacks.
LegacyStorageError(r) ==
  /\ pc[r] \in {"existing", "fetch"}
  /\ Respond(r, ServerError("storage"))
  /\ UNCHANGED <<logVars, slices, payload, stmtQueue, assignments, participantId,
                 assignedSliceIds, branch, written>>

\* await getAllSliceIds() / await getSliceCounts() reject inside the async
\* db.all callback, outside the try of the handler.
LegacyUnhandledRejection(r) ==
  /\ pc[r] \in {"ids", "counts"}
  /\ Uncaught(r)
  /\ UNCHANGED <<logVars, slices, payload, assignments, participantId, allSliceIds,
                 sliceCounts, assignedSliceIds, cursor, branch, written, response>>

LegacyStep(r) ==
  \/ CheckExisting(r)
  \/ GetAllSliceIds(r)
  \/ LegacyComputeBatch(r)
  \/ LegacyStmtRun(r)
  \/ LegacyFetchSlices(r)
  \/ LegacyStorageError(r)
  \/ LegacyUnhandledRejection(r)

NextLegacy ==
  \/ \E r \in Requests, p \in Participants : Receive(r, p)
  \/ \E r \in Requests : LegacyStep(r)

SpecLegacy == Init /\ [][NextLegacy]_vars

\* ------------------------------------------------- POST /api/annotations
handlerVars ==
  <<slices, payload, assignments, pc, participantId, allSliceIds, sliceCounts,
    assignedSliceIds, cursor, branch, written, stmtQueue, response, exportVars>>

\* !v of JavaScript for the values a body field takes here ([] is truthy).
Falsy(v) == v \in {"undefined", "null"}

\* Mutant of MissingRequired: an empty interaction_types counts as missing.
MissingRequiredOrEmpty(b) ==
  Falsy(b.participant_id) \/ Falsy(b.slice_id) \/ Falsy(b.interaction_types)
    \/ b.interaction_types = "[]"

\* Mutant of MissingRequired: a slice_id that is not in the catalog counts
\* as missing.
MissingRequiredOrUnknownSlice(b) ==
  \/ Falsy(b.participant_id) \/ Falsy(b.slice_id) \/ Falsy(b.interaction_types)
  \/ \A s \in slices : ToString(s) # b.slice_id

\* server.js: if (!participant_id || !slice_id || !interaction_types)
MissingRequired(b) ==
  Falsy(b.participant_id) \/ Falsy(b.slice_id) \/ Falsy(b.interaction_types)

\* Mutant of MissingRequiredSheets: slice_id is not checked.
MissingRequiredSheetsNoSlice(b) ==
  Falsy(b.participant_id) \/ b.interaction_types = "undefined"

\* part_000: if (!participant_id || !slice_id || interaction_types === undefined)
MissingRequiredSheets(b) ==
  Falsy(b.participant_id) \/ Falsy(b.slice_id) \/ b.interaction_types = "undefined"

\* v || d of JavaScript for the values a body field takes here.
OrElse(v, d) == IF Falsy(v) THEN d ELSE v

\* annotation_time_seconds || d (0 is falsy, a negative number is not).
SecondsOrElse(t, d) == IF t \in {<<>>, <<0>>} THEN d ELSE t

\* submitted_at DATETIME DEFAULT CURRENT_TIMESTAMP: the clock read at the
\* INSERT, in whole seconds.  Seconds are numbered from the first row; the
\* clock never runs backwards, and two INSERTs may fall in one second.
CurrentTimestamp ==
  IF annotations = <<>> THEN {1}
  ELSE {annotations[Len(annotations)].submitted_at,
        annotations[Len(annotations)].submitted_at + 1}

\* The row of INSERT INTO annotations (...) VALUES (...) of server.js and
\* part_000: id is the AUTOINCREMENT key, submitted_at the column default.
LogRow(b, now) ==
  [id |-> Len(annotations) + 1,
   participant_id |-> b.participant_id,
   slice_id |-> b.slice_id,
   interaction_types |-> JSONStringify(b.interaction_types),
   curiosity_types |-> JSONStringify(OrElse(b.curiosity_types, "[]")),
   routing_validation |-> JSONStringify(OrElse(b.routing_validation, "{}")),
   annotation_time_seconds |-> SecondsOrElse(b.annotation_time_seconds, <<0>>),
   submitted_at |-> now]

\* The row of the INSERT of part_001: curiosity_types || {} and
\* annotation_time_seconds || null.
LegacyLogRow(b, now) ==
  [id |-> Len(annotations) + 1,
   participant_id |-> b.participant_id,
   slice_id |-> b.slice_id,
   interaction_types |-> JSONStringify(b.interaction_types),
   curiosity_types |-> JSONStringify(OrElse(b.curiosity_types, "{}")),
   routing_validation |-> JSONStringify(OrElse(b.routing_validation, "{}")),
   annotation_time_seconds |-> SecondsOrElse(b.annotation_time_seconds, <<>>),
   submitted_at |-> now]

\* const row = [annotation.participant_id, annotation.slice_id, ...,
\*              JSON.stringify(annotation.interaction_types), ...]
SheetRow(b) ==
  [participant_id |-> b.participant_id,
   slice_id |-> b.slice_id,
   interaction_types |-> JSONStringify(b.interaction_types)]

\* res.json(...) or res.status(...).json(...): the handler returns.
Answer(u, rep) ==
  /\ apc' = [apc EXCEPT ![u] = "done"]
  /\ reply' = [reply EXCEPT ![u] = rep]

\* A submission arrives at server.js: destructure req.body, validate.
\* Submission slots are taken in order.
PostAnnotation(u, b) ==
  /\ server = "server.js"
  /\ apc[u] = "idle"
  /\ \A v \in Submissions : v < u => apc[v] # "idle"
  /\ body' = [body EXCEPT ![u] = b]
  /\ IF MissingRequired(b)
     THEN Answer(u, ClientError)
     ELSE /\ apc' = [apc EXCEPT ![u] = "insert"]
          /\ UNCHANGED reply
  /\ UNCHANGED <<handlerVars, server, sheetsReady, annotations, sheet, sheetsSaved, wrote>>

\* Mutant of InsertAnnotation: storing the annotation also records its pair
\* in the ledger when it is not there.
InsertAnnotationAssigns(u) ==
  /\ server = "server.js"
  /\ apc[u] = "insert"
  /\ \E now \in CurrentTimestamp :
       annotations' = Append(annotations, LogRow(body[u], now))
  /\ wrote' = [wrote EXCEPT ![u].log = Len(annotations) + 1]
  /\ Answer(u, Saved)
  /\ LET p == Rank(body[u].participant_id) IN
       assignments' = IF BagIn(<<p, 1>>, assignments) THEN assignments
                      ELSE assignments (+) SetToBag({<<p, 1>>})
  /\ UNCHANGED <<slices, payload, pc, participantId, allSliceIds, sliceCounts,
                 assignedSliceIds, cursor, branch, written, stmtQueue, response,
                 exportVars, server, sheetsReady, sheet, body, sheetsSaved>>

\* server.js: await db.run(INSERT INTO annotations ...) resolves; res.json.
InsertAnnotation(u) ==
  /\ server = "server.js"
  /\ apc[u] = "insert"
  /\ \E now \in CurrentTimestamp :
       annotations' = Append(annotations, LogRow(body[u], now))
  /\ wrote' = [wrote EXCEPT ![u].log = Len(annotations) + 1]
  /\ Answer(u, Saved)
  /\ UNCHANGED <<handlerVars, server, sheetsReady, sheet, body, sheetsSaved>>

\* server.js: the INSERT rejects; catch (error) { res.status(500)... }
InsertAnnotationFails(u) ==
  /\ server = "server.js"
  /\ apc[u] = "insert"
  /\ Answer(u, SaveFailed)
  /\ UNCHANGED <<handlerVars, server, sheetsReady, annotations, sheet, body,
                 sheetsSaved, wrote>>

\* A submission arrives at part_000: destructure, validate, and read
\* interaction_types.length, which throws for null outside the try: the
\* async handler rejects and nothing answers the request.
SheetsPostAnnotation(u, b) ==
  /\ server = "part_000"
  /\ apc[u] = "idle"
  /\ \A v \in Submissions : v < u => apc[v] # "idle"
  /\ body' = [body EXCEPT ![u] = b]
  /\ IF MissingRequiredSheets(b)
     THEN Answer(u, ClientError)
     ELSE /\ apc' = [apc EXCEPT ![u] =
                       IF b.interaction_types = "null" THEN "unanswered" ELSE "mirror"]
          /\ UNCHANGED reply
  /\ UNCHANGED <<handlerVars, server, sheetsReady, annotations, sheet, sheetsSaved, wrote>>

\* Mutant of SaveAnnotation: the catch of the append returns true.
SaveAnnotationCatchTrue(u) ==
  /\ server = "part_000"
  /\ apc[u] = "mirror"
  /\ sheetsSaved' = [sheetsSaved EXCEPT ![u] = SheetsAvailable(sheetsReady)]
  /\ apc' = [apc EXCEPT ![u] = "backup"]
  /\ UNCHANGED <<handlerVars, server, sheetsReady, annotations, sheet, body, wrote, reply>>

\* const sheetsSaved = await sheetsService.saveAnnotation(annotation):
\* false, with no call of the service, when the client or the sheet id is
\* missing; otherwise sheets.spreadsheets.values.append is called once and
\* either succeeds (true) or throws inside saveAnnotation's try (false).
SaveAnnotation(u) ==
  /\ server = "part_000"
  /\ apc[u] = "mirror"
  /\ IF SheetsAvailable(sheetsReady)
       THEN \/ /\ sheet' = Append(sheet, SheetRow(body[u]))
               /\ wrote' = [wrote EXCEPT ![u].sheet = Len(sheet) + 1,
                                         ![u].appends = @ + 1]
               /\ sheetsSaved' = [sheetsSaved EXCEPT ![u] = TRUE]
            \/ /\ wrote' = [wrote EXCEPT ![u].appends = @ + 1]
               /\ sheetsSaved' = [sheetsSaved EXCEPT ![u] = FALSE]
               /\ UNCHANGED sheet
       ELSE /\ sheetsSaved' = [sheetsSaved EXCEPT ![u] = FALSE]
            /\ UNCHANGED <<sheet, wrote>>
  /\ apc' = [apc EXCEPT ![u] = "backup"]
  /\ UNCHANGED <<handlerVars, server, sheetsReady, annotations, body, reply>>

\* Mutant of BackupAnnotation: storing the annotation removes its pair from
\* the ledger.
BackupAnnotationUnassigns(u) ==
  /\ server = "part_000"
  /\ apc[u] = "backup"
  /\ \E now \in CurrentTimestamp :
       annotations' = Append(annotations, LogRow(body[u], now))
  /\ wrote' = [wrote EXCEPT ![u].log = Len(annotations) + 1]
  /\ Answer(u, SavedWithFlag(sheetsSaved[u]))
  /\ assignments' =
       [row \in {a \in BagToSet(assignments) :
                   ~(Name(a[1]) = body[u].participant_id /\ Name(a[2]) = body[u].slice_id)}
          |-> assignments[row]]
  /\ UNCHANGED <<slices, payload, pc, participantId, allSliceIds, sliceCounts,
                 assignedSliceIds, cursor, branch, written, stmtQueue, response,
                 exportVars, server, sheetsReady, sheet, body, sheetsSaved>>

\* part_000: try { await db.run(INSERT INTO annotations ...) }
\*           catch (dbError) { console.error(...) }
\*           res.json({ success: true, ..., saved_to_sheets: sheetsSaved })
BackupAnnotation(u) ==
  /\ server = "part_000"
  /\ apc[u] = "backup"
  /\ \/ /\ \E now \in CurrentTimestamp :
             annotations' = Append(annotations, LogRow(body[u], now))
        /\ wrote' = [wrote EXCEPT ![u].log = Len(annotations) + 1]
     \/ UNCHANGED <<annotations, wrote>>
  /\ Answer(u, SavedWithFlag(sheetsSaved[u]))
  /\ UNCHANGED <<handlerVars, server, sheetsReady, sheet, body, sheetsSaved>>

\* A submission arrives at part_001: destructure req.body, validate (the
\* same test as server.js), and hand the INSERT to the driver.
LegacyPostAnnotation(u, b) ==
  /\ server = "part_001"
  /\ apc[u] = "idle"
  /\ \A v \in Submissions : v < u => apc[v] # "idle"
  /\ body' = [body EXCEPT ![u] = b]
  /\ IF MissingRequired(b)
     THEN Answer(u, ClientError)
     ELSE /\ apc' = [apc EXCEPT ![u] = "insert"]
          /\ UNCHANGED reply
  /\ UNCHANGED <<handlerVars, server, sheetsReady, annotations, sheet, sheetsSaved, wrote>>

\* part_001: the callback of db.run(INSERT INTO annotations ...) runs with
\* err null: res.json({ id: this.lastID, status: 'success', ... }).
LegacyInsertAnnotation(u) ==
  /\ server = "part_001"
  /\ apc[u] = "insert"
  /\ \E now \in CurrentTimestamp :
       annotations' = Append(annotations, LegacyLogRow(body[u], now))
  /\ wrote' = [wrote EXCEPT ![u].log = Len(annotations) + 1]
  /\ Answer(u, Saved)
  /\ UNCHANGED <<handlerVars, server, sheetsReady, sheet, body, sheetsSaved>>

\* part_001: the callback runs with err:
\* res.status(500).json({ error: 'Database error' })
LegacyInsertAnnotationFails(u) ==
  /\ server = "part_001"
  /\ apc[u] = "insert"
  /\ Answer(u, SaveFailed)
  /\ UNCHANGED <<handlerVars, server, sheetsReady, annotations, sheet, body,
                 sheetsSaved, wrote>>

NextAnnotations ==
  \/ \E u \in Submissions, b \in Bodies : PostAnnotation(u, b)
  \/ \E u \in Submissions, b \in Bodies : LegacyPostAnnotation(u, b)
  \/ \E u \in Submissions : LegacyInsertAnnotation(u)
  \/ \E u \in Submissions : LegacyInsertAnnotationFails(u)
  \/ \E u \in Submissions : InsertAnnotation(u)
  \/ \E u \in Submissions : InsertAnnotationFails(u)
  \/ \E u \in Submissions, b \in Bodies : SheetsPostAnnotation(u, b)
  \/ \E u \in Submissions : SaveAnnotation(u)
  \/ \E u \in Submissions : BackupAnnotation(u)

SpecAnnotations == InitAnnotations /\ [][NextAnnotations]_vars

\* The steps a submission takes after it was received: each is the return of
\* a storage call or of the mirror's call.
AnnotationStep(u) ==
  \/ LegacyInsertAnnotation(u)
  \/ LegacyInsertAnnotationFails(u)
  \/ InsertAnnotation(u)
  \/ InsertAnnotationFails(u)
  \/ SaveAnnotation(u)
  \/ BackupAnnotation(u)

\* Every storage call and every call of the mirror returns: a submission
\* that can take a step takes one.
FairAnnotations ==
  SpecAnnotations /\ \A u \in Submissions : WF_vars(AnnotationStep(u))

\* ------------------------------------------------------- GET /api/export
\* slices.conversation_id of slice s (the record of index s - 1), as the
\* loader writes it when the input record has none:
\* `conv_${Math.floor(index/3) + 1}`.
ConversationId(s) == "conv_" \o ToString(((s - 1) \div 3) + 1)

\* ... JOIN assignments ass ON a.participant_id = ass.participant_id
\*                         AND a.slice_id = ass.slice_id
AssignmentJoined(a, ass) ==
  a.participant_id = Name(ass[1]) /\ a.slice_id = Name(ass[2])

\* Mutant of SliceJoined: no join with the catalog (every slice row joins).
SliceJoinedAlways(a, s) == TRUE

\* ... JOIN slices s ON a.slice_id = s.id
SliceJoined(a, s) == a.slice_id = Name(s)

\* FROM annotations a JOIN assignments ass ON ... JOIN slices s ON ...:
\* one joined row <<k, ass, c, s>> per annotation (index k), matching ledger
\* row (copy c of the row ass) and matching catalog row s.
JoinRows ==
  {j \in (DOMAIN annotations) \X BagToSet(assignments) \X (1..MaxRequests) \X slices :
     /\ AssignmentJoined(annotations[j[1]], j[2])
     /\ j[3] <= CopiesIn(j[2], assignments)
     /\ SliceJoined(annotations[j[1]], j[4])}

\* SELECT a.participant_id, a.slice_id, a.interaction_types, ...,
\*        a.submitted_at, s.conversation_id
ExportRow(j) ==
  LET a == annotations[j[1]] IN
    [participant_id |-> a.participant_id,
     slice_id |-> a.slice_id,
     conversation_id |-> ConversationId(j[4]),
     interaction_types |-> a.interaction_types,
     curiosity_types |-> a.curiosity_types,
     routing_validation |-> a.routing_validation,
     annotation_time_seconds |-> a.annotation_time_seconds,
     submitted_at |-> a.submitted_at]

\* ORDER BY a.participant_id, a.submitted_at: a sorts strictly before b.
SortsBefore(a, b) ==
  \/ Rank(a.participant_id) < Rank(b.participant_id)
  \/ a.participant_id = b.participant_id /\ a.submitted_at < b.submitted_at

\* The results the query may give: the joined rows in every order the
\* ORDER BY allows (rows that tie come in an order the engine chooses).
QueryResults ==
  {[i \in 1..Len(q) |-> ExportRow(q[i])] :
     q \in {o \in Orderings(JoinRows) :
              \A i, k \in 1..Len(o) :
                i < k => ~SortsBefore(annotations[o[k][1]], annotations[o[i][1]])}}

\* No slice request, submission or export is being handled.
Idle ==
  /\ Quiescent
  /\ \A u \in Submissions : apc[u] \in {"idle", "done", "unanswered"}
  /\ epc = "idle"

\* GET /api/export arrives: const rows = await db.query(...) is issued.
GetExport ==
  /\ epc = "idle"
  /\ exports < MaxExports
  /\ epc' = "query"
  /\ UNCHANGED <<slices, payload, assignments, pc, participantId, allSliceIds,
                 sliceCounts, assignedSliceIds, cursor, branch, written, stmtQueue,
                 response, server, sheetsReady, annotations, sheet, apc, body,
                 sheetsSaved, wrote, reply, exports, exportReply, reloadVars>>

\* The query resolves: the CSV is built from the rows and sent.
ExportQuery ==
  /\ epc = "query"
  /\ \E rows \in QueryResults : exportReply' = [status |-> 200, rows |-> rows]
  /\ epc' = "idle"
  /\ exports' = exports + 1
  /\ UNCHANGED <<slices, payload, assignments, pc, participantId, allSliceIds,
                 sliceCounts, assignedSliceIds, cursor, branch, written, stmtQueue,
                 response, server, sheetsReady, annotations, sheet, apc, body,
                 sheetsSaved, wrote, reply, reloadVars>>

\* The query rejects: catch (error) { res.status(500).json({ error:
\* 'Export failed' }) }
ExportFails ==
  /\ epc = "query"
  /\ exportReply' = [status |-> 500, rows |-> <<>>]
  /\ epc' = "idle"
  /\ exports' = exports + 1
  /\ UNCHANGED <<slices, payload, assignments, pc, participantId, allSliceIds,
                 sliceCounts, assignedSliceIds, cursor, branch, written, stmtQueue,
                 response, server, sheetsReady, annotations, sheet, apc, body,
                 sheetsSaved, wrote, reply, reloadVars>>

\* Bodies of submissions that name participants and slices of the ledger and
\* the catalog, or a slice id that no catalog has; one body lacks a
\* required field.
JoinBodies ==
  {[NoBody EXCEPT !.participant_id = Name(ids[1]), !.slice_id = Name(ids[2]),
                  !.interaction_types = "[x]"] :
     ids \in {<<1, 1>>, <<1, 2>>, <<2, 1>>, <<1, MaxSlices + 1>>}}
  \cup {[NoBody EXCEPT !.participant_id = Name(1), !.slice_id = Name(1)]}

\* The server with its three endpoints, one request at a time, over a
\* catalog of one batch; the server with the mirror has it configured.
InitServer ==
  /\ slices = 1..SLICES_PER_PARTICIPANT
  /\ payload = [s \in slices |-> WellFormed]
  /\ assignments = EmptyBag
  /\ NoRequests
  /\ server \in {"server.js", "part_000"}
  /\ sheetsReady = IF server = "part_000" THEN Configured ELSE NotConfigured
  /\ NoSubmissions

NextServer ==
  \/ \E r \in Requests, p \in Participants : Idle /\ Receive(r, p)
  \/ \E r \in Requests : Step(r)
  \/ \E u \in Submissions, b \in JoinBodies : Idle /\ PostAnnotation(u, b)
  \/ \E u \in Submissions : InsertAnnotation(u)
  \/ \E u \in Submissions : InsertAnnotationFails(u)
  \/ \E u \in Submissions, b \in JoinBodies : Idle /\ SheetsPostAnnotation(u, b)
  \/ \E u \in Submissions : SaveAnnotation(u)
  \/ \E u \in Submissions : BackupAnnotation(u)
  \/ Idle /\ GetExport
  \/ ExportQuery
  \/ ExportFails

SpecServer == InitServer /\ [][NextServer]_vars

\* ------------------------------------------------- the catalog loader
\* A record of the loader's input.  id 0 stands for a record without id
\* (or with the falsy id 0), an id above MaxRecords for an explicit id that
\* reads like a padded position ('02'); a field that the record lacks reads
\* as undefined.  Every record has focus_turns (two turns) and
\* hybrid_predictions; it may also have focus_turn (the one-turn format),
\* model_predictions or interaction_types.
PlainRecord(id) ==
  [id |-> id, focus_turn |-> "undefined", focus_turns |-> "[turn,turn]",
   hybrid_predictions |-> "{predictions}", model_predictions |-> "undefined",
   interaction_types |-> "undefined"]

RecordKinds ==
  {PlainRecord(id) : id \in 0..MaxRecords}
  \cup {PlainRecord(MaxRecords + 2)}
  \cup {[PlainRecord(0) EXCEPT !.focus_turn = "turn"],
        [PlainRecord(0) EXCEPT !.model_predictions = "{model}"],
        [PlainRecord(0) EXCEPT !.focus_turn = "turn", !.interaction_types = "[x]"]}

\* The inputs of one run: loadSlicesFromFile() gives a list of records.
Inputs == UNION {[1..n -> RecordKinds] : n \in 0..MaxRecords}

\* const sliceId = `validation_${slice.id || (i + 1).toString().padStart(2, '0')}`
\* The stored ids are numbered: the id made of the explicit id n is numbered
\* n, the id made of the padded position i is numbered MaxRecords + i.
SliceId(slice, i) == IF slice.id # 0 THEN slice.id ELSE MaxRecords + i

\* focusTurns: [slice.focus_turn] if the record has focus_turn, else
\* slice.focus_turns if it is an array, else the turns parsed from the text
\* (none for a record without text).
FocusTurns(slice) ==
  IF slice.focus_turn # "undefined" THEN "[" \o slice.focus_turn \o "]"
  ELSE IF slice.focus_turns # "undefined" THEN slice.focus_turns
  ELSE "[]"

\* hybridPredictions: slice.hybrid_predictions || {}, replaced by
\* slice.model_predictions (part_003) or by the object derived from
\* slice.interaction_types (setup-database.js) when the record has it.
HybridPredictions(file, slice) ==
  IF file = "part_003" /\ slice.model_predictions # "undefined"
    THEN slice.model_predictions
  ELSE IF file = "setup-database.js" /\ slice.interaction_types # "undefined"
    THEN "{derived}"
  ELSE OrElse(slice.hybrid_predictions, "{}")

\* The focus_turns and hybrid_predictions columns of the INSERT INTO slices.
SliceColumns(file, slice) ==
  [focus_turns |-> JSONStringify(FocusTurns(slice)),
   hybrid_predictions |-> JSONStringify(HybridPredictions(file, slice))]

\* The three tables.
Store == [slices |-> slices, payload |-> payload, assignments |-> assignments,
          annotations |-> annotations]

\* insertSlices(slices) is entered with the records read from the files.
EnterInsertSlices(how, file, input) ==
  /\ lpc = "idle"
  /\ lpc' = "annotations"
  /\ trigger' = how
  /\ loader' = file
  /\ records' = input
  /\ index' = 1
  /\ before' = Store
  /\ UNCHANGED inserted
  /\ UNCHANGED <<slices, payload, assignments, pc, participantId, allSliceIds,
                 sliceCounts, assignedSliceIds, cursor, branch, written, stmtQueue,
                 response, server, sheetsReady, annotations, sheet, apc, body,
                 sheetsSaved, wrote, reply, epc, exports, exportReply>>

\* The setup script is run with node: setupDatabase() of either file.
RunSetupScript(file, input) == EnterInsertSlices("script", file, input)

\* GET /api/setup of part_000:
\* const { setupDatabase } = require('./setup-database'); await setupDatabase()
GetSetup(input) ==
  /\ server = "part_000"
  /\ EnterInsertSlices("/api/setup", "setup-database.js", input)

\* The loader's step leaves the handlers and the mirror alone.
LoaderFrame ==
  UNCHANGED <<pc, participantId, allSliceIds, sliceCounts, assignedSliceIds, cursor,
              branch, written, stmtQueue, response, server, sheetsReady, sheet, apc,
              body, sheetsSaved, wrote, reply, epc, exports, exportReply, trigger,
              loader, records, before>>

\* db.run('DELETE FROM annotations')
DeleteAnnotations ==
  /\ lpc = "annotations"
  /\ annotations' = <<>>
  /\ lpc' = "assignments"
  /\ UNCHANGED <<slices, payload, assignments, index, inserted>>
  /\ LoaderFrame

\* Mutant of DeleteAssignments: the ledger is not cleared.
DeleteAssignmentsSkipped ==
  /\ lpc = "assignments"
  /\ lpc' = "slices"
  /\ UNCHANGED <<slices, payload, assignments, annotations, index, inserted>>
  /\ LoaderFrame

\* db.run('DELETE FROM assignments')
DeleteAssignments ==
  /\ lpc = "assignments"
  /\ assignments' = EmptyBag
  /\ lpc' = "slices"
  /\ UNCHANGED <<slices, payload, annotations, index, inserted>>
  /\ LoaderFrame

\* db.run('DELETE FROM slices')
DeleteSlices ==
  /\ lpc = "slices"
  /\ slices' = {}
  /\ payload' = [s \in {} |-> WellFormed]
  /\ inserted' = <<>>
  /\ lpc' = IF records = <<>> THEN "finish" ELSE "insert"
  /\ UNCHANGED <<assignments, annotations, index>>
  /\ LoaderFrame

\* Mutant of SliceKeyViolated: a slices table created without PRIMARY KEY
\* accepts every row.
SliceKeyNotDeclared(id) == FALSE

\* id TEXT PRIMARY KEY of CREATE TABLE slices: the engine rejects an INSERT
\* whose id is already in the table.
SliceKeyViolated(id) == id \in slices

\* One iteration of the loop: INSERT INTO slices (id, ...) VALUES (...).
\* A rejected INSERT leaves insertSlices with the error, and the process
\* ends.
InsertSlice ==
  /\ lpc = "insert"
  /\ LET id == SliceId(records[index], index) IN
       IF SliceKeyViolated(id)
       THEN /\ lpc' = "failed"
            /\ UNCHANGED <<slices, payload, index, inserted>>
       ELSE /\ slices' = slices \cup {id}
            /\ inserted' = Append(inserted, id)
            /\ payload' = [s \in slices \cup {id} |->
                             IF s = id THEN SliceColumns(loader, records[index])
                             ELSE payload[s]]
            /\ index' = index + 1
            /\ lpc' = IF index = Len(records) THEN "finish" ELSE "insert"
  /\ UNCHANGED <<assignments, annotations>>
  /\ LoaderFrame

\* A statement of the loader is rejected by the storage: the error leaves
\* insertSlices and the process ends.
LoaderStatementFails ==
  /\ lpc \in {"annotations", "assignments", "slices", "insert"}
  /\ lpc' = "failed"
  /\ UNCHANGED <<slices, payload, assignments, annotations, index, inserted>>
  /\ LoaderFrame

\* return slices.length (part_003), resolve(slices.length) in the callback
\* of stmt.finalize (setup-database.js).
FinishInsertSlices ==
  /\ lpc = "finish"
  /\ lpc' = "done"
  /\ UNCHANGED <<slices, payload, assignments, annotations, index, inserted>>
  /\ LoaderFrame

\* One row of the annotations table of an earlier run.
PriorRow ==
  [id |-> 1, participant_id |-> Name(1), slice_id |-> Name(1),
   interaction_types |-> JSONStringify("[x]"),
   curiosity_types |-> JSONStringify("[]"),
   routing_validation |-> JSONStringify("{}"),
   annotation_time_seconds |-> <<30>>, submitted_at |-> 1]

\* The store as an earlier run left it: empty, or a catalog of one batch
\* with or without the batch of participant 1 in the ledger and a row in
\* the log.  The loader runs once; the server answers slice requests after
\* it.
InitReload ==
  /\ slices \in {{}, 1..SLICES_PER_PARTICIPANT}
  /\ payload = [s \in slices |-> WellFormed]
  /\ assignments \in {EmptyBag, SetToBag({<<1, s>> : s \in slices})}
  /\ NoRequests
  /\ server \in {"server.js", "part_000"}
  /\ sheetsReady = NotConfigured
  /\ annotations \in IF slices = {} THEN {<<>>} ELSE {<<>>, <<PriorRow>>}
  /\ sheet = <<>>
  /\ apc = [u \in Submissions |-> "idle"]
  /\ body = [u \in Submissions |-> NoBody]
  /\ sheetsSaved = [u \in Submissions |-> FALSE]
  /\ wrote = [u \in Submissions |-> [log |-> 0, sheet |-> 0, appends |-> 0]]
  /\ reply = [u \in Submissions |-> NoReply]
  /\ epc = "idle"
  /\ exports = 0
  /\ exportReply = NoExport
  /\ NoReload

NextReload ==
  \/ \E file \in {"part_003", "setup-database.js"}, input \in Inputs :
       RunSetupScript(file, input)
  \/ \E input \in Inputs : GetSetup(input)
  \/ DeleteAnnotations
  \/ DeleteAssignments
  \/ DeleteSlices
  \/ InsertSlice
  \/ LoaderStatementFails
  \/ FinishInsertSlices
  \/ \E r \in Requests, p \in Participants :
       lpc \in {"done", "failed"} /\ Quiescent /\ Receive(r, p)
  \/ \E r \in Requests : Step(r)

SpecReload == InitReload /\ [][NextReload]_vars

\* Inputs of a load that runs while the server answers requests: no record,
\* one record with an id of the old catalog, two records without ids.
LiveInputs ==
  {<<>>, <<PlainRecord(1)>>, <<PlainRecord(0), PlainRecord(0)>>}

\* The server runs over a catalog of one batch.
InitReloadLive ==
  /\ slices = 1..SLICES_PER_PARTICIPANT
  /\ payload = [s \in slices |-> WellFormed]
  /\ assignments = EmptyBag
  /\ NoRequests
  /\ server \in {"server.js", "part_000"}
  /\ sheetsReady = NotConfigured
  /\ NoSubmissions

\* The loader runs once, started by the script or by GET /api/setup, while
\* slice requests are handled: each statement of the loader and each
\* statement of a handler is one step, in any order.
NextReloadLive ==
  \/ \E file \in {"part_003", "setup-database.js"}, input \in LiveInputs :
       RunSetupScript(file, input)
  \/ \E input \in LiveInputs : GetSetup(input)
  \/ DeleteAnnotations
  \/ DeleteAssignments
  \/ DeleteSlices
  \/ InsertSlice
  \/ LoaderStatementFails
  \/ FinishInsertSlices
  \/ \E r \in Requests, p \in Participants : Receive(r, p)
  \/ \E r \in Requests : Step(r)

SpecReloadLive == InitReloadLive /\ [][NextReloadLive]_vars

\* Mutant of NoSlicesFound: the seeding runs whatever the count is.
NoSlicesFoundIgnored(count) == TRUE

\* if (result.count === 0)
NoSlicesFound(count) == count = 0

\* The start-up block of part_000: await db.initialize() creates the tables
\* that are missing, SELECT COUNT(*) FROM slices is read, and setupDatabase()
\* of ./setup-database runs when the count is 0. app.listen is called without
\* waiting for the block, so requests are served from the first step on.
StartupSeeding(input) ==
  /\ server = "part_000"
  /\ lpc = "idle"
  /\ IF NoSlicesFound(Cardinality(slices))
       THEN EnterInsertSlices("startup", "setup-database.js", input)
       ELSE /\ lpc' = "done"
            /\ trigger' = "startup"
            /\ UNCHANGED <<loader, records, index, before, inserted>>
            /\ UNCHANGED <<slices, payload, assignments, pc, participantId,
                           allSliceIds, sliceCounts, assignedSliceIds, cursor,
                           branch, written, stmtQueue, response, server,
                           sheetsReady, annotations, sheet, apc, body, sheetsSaved,
                           wrote, reply, epc, exports, exportReply>>

\* The server process starts over a store that is empty, that has lost its
\* catalog but kept ledger rows, or that is loaded and in use.
InitStartup ==
  /\ slices \in {{}, 1..SLICES_PER_PARTICIPANT}
  /\ payload = [s \in slices |-> WellFormed]
  /\ assignments \in IF slices = {}
                       THEN {EmptyBag, SetToBag({<<1, 1>>, <<1, 2>>})}
                       ELSE {SetToBag({<<1, s>> : s \in slices})}
  /\ NoRequests
  /\ server = "part_000"
  /\ sheetsReady = NotConfigured
  /\ annotations \in IF slices = {} THEN {<<>>} ELSE {<<PriorRow>>}
  /\ sheet = <<>>
  /\ apc = [u \in Submissions |-> "idle"]
  /\ body = [u \in Submissions |-> NoBody]
  /\ sheetsSaved = [u \in Submissions |-> FALSE]
  /\ wrote = [u \in Submissions |-> [log |-> 0, sheet |-> 0, appends |-> 0]]
  /\ reply = [u \in Submissions |-> NoReply]
  /\ epc = "idle"
  /\ exports = 0
  /\ exportReply = NoExport
  /\ NoReload

\* The start-up block runs once; slice requests are handled from the start.
NextStartup ==
  \/ \E input \in LiveInputs : StartupSeeding(input)
  \/ DeleteAnnotations
  \/ DeleteAssignments
  \/ DeleteSlices
  \/ InsertSlice
  \/ LoaderStatementFails
  \/ FinishInsertSlices
  \/ \E r \in Requests, p \in Participants : Receive(r, p)
  \/ \E r \in Requests : Step(r)

SpecStartup == InitStartup /\ [][NextStartup]_vars

\* ----------------------------------------------------------------- claims
Done(r) == pc[r] = "done"

\* The slice set a successful response carries.
Sent(r) == {response[r].slices[i].id : i \in 1..Len(response[r].slices)}

\* Two answered requests of one participant that both took the
\* `existing.length === 0` arm, with no storage failure in either: the race
\* of two first-time requests.
RacedPair(r1, r2) ==
  /\ r1 # r2
  /\ Done(r1) /\ Done(r2)
  /\ participantId[r1] = participantId[r2]
  /\ branch[r1] = "new" /\ branch[r2] = "new"
  /\ response[r1].error # "storage" /\ response[r2].error # "storage"

BatchSize == Min(SLICES_PER_PARTICIPANT, Cardinality(slices))

\* C1: two concurrent first-time requests of one participant leave exactly
\* one committed batch in the ledger: min(BATCH_SIZE, catalog size) rows, all
\* of them the batch one of the two requests computed.
C1_OneCommittedBatch ==
  \A r1, r2 \in Requests :
    RacedPair(r1, r2) =>
      /\ Cardinality(ExistingRows(participantId[r1])) = BatchSize
      /\ \/ ExistingRows(participantId[r1]) = Range(assignedSliceIds[r1])
         \/ ExistingRows(participantId[r1]) = Range(assignedSliceIds[r2])

\* C2: in that race neither caller gets an error: the request that hits the
\* uniqueness violation re-reads the ledger, and both responses are
\* successful and carry the same slice set.
C2_LoserRereads ==
  \A r1, r2 \in Requests :
    RacedPair(r1, r2) =>
      /\ response[r1].status = 200
      /\ response[r2].status = 200
      /\ Sent(r1) = Sent(r2)

\* C4: the batch insert is all-or-nothing: a first-time request that fails
\* (storage failure or uniqueness violation) after some but not all rows of
\* its batch were inserted leaves none of its rows in the ledger.
C4_AllOrNothing ==
  \A r \in Requests :
    (/\ Done(r) /\ branch[r] = "new" /\ response[r].status = 500
     /\ written[r] # Range(assignedSliceIds[r]))
    => written[r] \cap ExistingRows(participantId[r]) = {}

\* C5: in every reachable state a participant's ledger rows number at most
\* min(BATCH_SIZE, catalog size).
C5_AtMostOneSet ==
  \A p \in Participants : Cardinality(ExistingRows(p)) <= BatchSize

\* C6: all successful responses for one participant carry the same slice set.
C6_SameSetEveryTime ==
  \A r1, r2 \in Requests :
    (/\ Done(r1) /\ Done(r2)
     /\ participantId[r1] = participantId[r2]
     /\ response[r1].status = 200 /\ response[r2].status = 200)
    => Sent(r1) = Sent(r2)

\* C3: for requests processed one after the other, a participant's first
\* successful request and any later successful one return the same slice
\* set, and the ledger holds exactly that set for the participant.
C3_SequentialIdempotent ==
  \A r1, r2 \in Requests :
    (/\ r1 < r2 /\ Done(r1) /\ Done(r2)
     /\ participantId[r1] = participantId[r2]
     /\ branch[r1] = "new"
     /\ response[r1].status = 200 /\ response[r2].status = 200)
    => /\ Sent(r1) = Sent(r2)
       /\ ExistingRows(participantId[r1]) = Sent(r1)

\* C3's case: a first request allocated a batch, a second one re-read it.
C3_Witness ==
  \E r1, r2 \in Requests :
    /\ r1 < r2 /\ Done(r1) /\ Done(r2)
    /\ participantId[r1] = participantId[r2]
    /\ branch[r1] = "new" /\ branch[r2] = "existing"
    /\ response[r1].status = 200 /\ response[r2].status = 200
    /\ Cardinality(Sent(r2)) = SLICES_PER_PARTICIPANT

\* A request that has computed a new batch and not yet answered.
Computed(r) == branch[r] = "new" /\ pc[r] \in {"insert", "fetch"}

\* C7: a newly computed batch has exactly min(BATCH_SIZE, catalog size)
\* pairwise distinct ids, all of the catalog; a catalog smaller than
\* BATCH_SIZE is taken whole.
C7_BatchShape ==
  \A r \in Requests :
    Computed(r) =>
      LET batch == assignedSliceIds[r] IN
        /\ Len(batch) = BatchSize
        /\ \A i, j \in 1..Len(batch) : batch[i] = batch[j] => i = j
        /\ Range(batch) \subseteq slices
        /\ Cardinality(slices) < SLICES_PER_PARTICIPANT => Range(batch) = slices

\* C7's case: a batch computed over a non-empty catalog smaller than one batch.
C7_Witness ==
  \E r \in Requests :
    /\ Computed(r)
    /\ slices # {}
    /\ Cardinality(slices) < SLICES_PER_PARTICIPANT
    /\ Range(assignedSliceIds[r]) = slices

\* C8: the step that computes a batch ranks by the counts the ledger holds
\* when the request reads them: no catalog slice left out has a strictly
\* smaller count than a slice taken.
C8_LeastAssignedFirst ==
  [][\A r \in Requests :
       (pc[r] = "counts" /\ pc'[r] \in {"insert", "fetch"}) =>
         \A s \in allSliceIds[r] \ Range(assignedSliceIds'[r]) :
           \A u \in Range(assignedSliceIds'[r]) : CountOf(s) >= CountOf(u)]_vars

\* C8's case: a computed batch that left out a slice with a larger count.
C8_Witness ==
  \E r \in Requests :
    /\ Computed(r) /\ pc[r] = "insert"
    /\ \E s \in allSliceIds[r] \ Range(assignedSliceIds[r]) :
         \E u \in Range(assignedSliceIds[r]) : sliceCounts[r][s] > sliceCounts[r][u]

\* Per-slice spread of the ledger: maximum minus minimum assignment count.
Spread ==
  IF slices = {} THEN 0
  ELSE LET hi == CHOOSE s \in slices : \A u \in slices : CountOf(s) >= CountOf(u)
           lo == CHOOSE s \in slices : \A u \in slices : CountOf(s) <= CountOf(u)
       IN CountOf(hi) - CountOf(lo)

\* Spread of a perfectly even round-robin allocation of total rows over m slices.
RoundRobinSpread(total, m) == IF total % m = 0 THEN 0 ELSE 1

\* Requests that allocated a batch and answered successfully.
Allocations ==
  {r \in Requests : Done(r) /\ branch[r] = "new" /\ response[r].status = 200}

\* Every request so far was a completed first-time allocation, and none is
\* in flight.
OnlyAllocations == \A r \in Requests : pc[r] = "idle" \/ r \in Allocations

FairnessBound ==
  RoundRobinSpread(Cardinality(Allocations) * SLICES_PER_PARTICIPANT,
                   Cardinality(slices)) + 1

\* C9: with a catalog larger than one batch, after N first-time allocations
\* processed one at a time the spread is at most one more than the
\* round-robin spread of N * BATCH_SIZE rows.
C9_FairnessSequential ==
  (Cardinality(slices) > SLICES_PER_PARTICIPANT /\ OnlyAllocations)
    => Spread <= FairnessBound

\* C9's case: two allocations, one after the other, over a catalog larger
\* than one batch.
C9_Witness ==
  /\ Cardinality(slices) > SLICES_PER_PARTICIPANT
  /\ OnlyAllocations
  /\ Cardinality(Allocations) = 2

DistinctParticipants ==
  \A r1, r2 \in Allocations : participantId[r1] = participantId[r2] => r1 = r2

\* C10: the same bound when first-time requests of distinct participants
\* are in flight together.
C10_FairnessInterleaved ==
  (/\ Cardinality(slices) > SLICES_PER_PARTICIPANT
   /\ OnlyAllocations
   /\ DistinctParticipants)
    => Spread <= FairnessBound

\* The handler of request r ran in this step.
Acted(r) == pc'[r] # pc[r] \/ cursor'[r] # cursor[r]

NoDuplicateRows ==
  \A row \in BagToSet(assignments) : CopiesIn(row, assignments) = 1

\* C11: the ledger never holds two rows with one (participant_id, slice_id)
\* pair, and an INSERT of a pair that is already there fails with the
\* uniqueness violation and leaves the ledger as it was.
C11_UniquePairs ==
  [][/\ NoDuplicateRows'
     /\ \A r \in Requests :
          (/\ pc[r] = "insert" /\ Acted(r)
           /\ BagIn(<<participantId[r], assignedSliceIds[r][cursor[r]]>>, assignments)
           /\ response'[r].error # "storage")
          => /\ assignments' = assignments
             /\ response'[r].status = 500
             /\ response'[r].error = "SQLITE_CONSTRAINT"]_vars

\* C11's case: an INSERT was rejected for its pair being in the ledger.
C11_Witness ==
  \E r \in Requests :
    /\ Done(r) /\ response[r].error = "SQLITE_CONSTRAINT"
    /\ \E s \in Range(assignedSliceIds[r]) \ written[r] :
         CopiesIn(<<participantId[r], s>>, assignments) = 1

\* C12: when a first-time request is answered successfully, every row of
\* its batch is committed, and the participant's ledger rows are exactly
\* the slice ids of the response.
C12_RespondsAfterCommit ==
  [][\A r \in Requests :
       (/\ pc[r] = "fetch" /\ pc'[r] = "done"
        /\ branch[r] = "new" /\ response'[r].status = 200)
       => ExistingRows(participantId[r]) = Sent(r)']_vars

\* C13: a successful response has one record per resolved id, in the order
\* of the resolved id list, each record carrying the id at its position;
\* total is the number of records and participant_id the requested id.
C13_RecordsInResolvedOrder ==
  \A r \in Requests :
    (Done(r) /\ response[r].status = 200) =>
      /\ Len(response[r].slices) = Len(assignedSliceIds[r])
      /\ \A i \in 1..Len(assignedSliceIds[r]) :
           response[r].slices[i].id = assignedSliceIds[r][i]
      /\ response[r].total = Len(response[r].slices)
      /\ response[r].participant_id = participantId[r]

\* C13's case: a successful response whose resolved list is not in catalog
\* order.
C13_Witness ==
  \E r \in Requests :
    /\ Done(r) /\ response[r].status = 200
    /\ Len(assignedSliceIds[r]) = 2
    /\ assignedSliceIds[r][1] > assignedSliceIds[r][2]
    /\ response[r].slices[1].id > response[r].slices[2].id

\* C14: over an empty catalog a first-time request whose storage works
\* succeeds with an empty batch and total 0, and no ledger row is written.
C14_EmptyCatalog ==
  \A r \in Requests :
    (Done(r) /\ slices = {} /\ response[r].error # "storage") =>
      /\ branch[r] = "new"
      /\ response[r].status = 200
      /\ response[r].slices = <<>>
      /\ response[r].total = 0
      /\ written[r] = {}
      /\ assignments = EmptyBag

\* C14's case: a first-time request answered over the empty catalog.
C14_Witness ==
  \E r \in Requests :
    /\ slices = {} /\ Done(r) /\ branch[r] = "new"
    /\ response[r].status = 200 /\ response[r].total = 0

\* What the decoding of a stored column is expected to give: the stored
\* structure, or the empty default when the column is absent or not JSON.
DecodedOrEmpty(stored, fallback) ==
  IF stored \notin {"absent", "malformed"} THEN JSONParse(stored) ELSE fallback

\* C15: a stored focus_turns or hybrid_predictions that is absent or not
\* JSON does not fail the request: it succeeds, with the empty default in
\* that field and every other field decoded.
C15_DecodeFallsBack ==
  \A r \in Requests :
    (Done(r) /\ response[r].error # "storage") =>
      /\ response[r].status = 200
      /\ \A i \in 1..Len(response[r].slices) :
           LET record == response[r].slices[i] IN
             /\ record.focus_turns =
                  DecodedOrEmpty(payload[record.id].focus_turns, "[]")
             /\ record.hybrid_predictions =
                  DecodedOrEmpty(payload[record.id].hybrid_predictions, "{}")

\* C16: a failed ledger or slice-store operation is always answered, with
\* the generic server error and no slice record; a request is answered
\* either that way or successfully with the whole resolved list, never with
\* part of it.
C16_ErrorCarriesNoRecords ==
  \A r \in Requests :
    /\ pc[r] # "unanswered"
    /\ Done(r) =>
         \/ /\ response[r].status = 500 /\ response[r].error # "none"
            /\ response[r].slices = <<>> /\ response[r].total = 0
            /\ response[r].participant_id = 0
         \/ /\ response[r].status = 200 /\ response[r].error = "none"
            /\ Len(response[r].slices) = Len(assignedSliceIds[r])

\* A required field is not in the body.
MissingField(b) ==
  \/ b.participant_id = "undefined"
  \/ b.slice_id = "undefined"
  \/ b.interaction_types = "undefined"

Answered(u) == apc[u] = "done"

\* C17: a submission that lacks participant_id, slice_id or
\* interaction_types is answered with the client error in the step that
\* receives it, and that step writes nothing to the log or to the mirror.
C17_MissingFieldRejected ==
  [][\A u \in Submissions :
       (apc[u] = "idle" /\ apc'[u] # "idle" /\ MissingField(body'[u]))
       => /\ apc'[u] = "done"
          /\ reply'[u].status = 400
          /\ ~reply'[u].success
          /\ annotations' = annotations
          /\ sheet' = sheet
          /\ wrote' = wrote]_vars

\* C17's case: a submission with only slice_id missing was rejected while
\* the log already held a row.
C17_Witness ==
  \E u \in Submissions :
    /\ Answered(u) /\ reply[u].status = 400
    /\ body[u].participant_id # "undefined"
    /\ body[u].slice_id = "undefined"
    /\ body[u].interaction_types = "[x]"
    /\ Len(annotations) = 1

\* C18: a submission with participant_id and slice_id and an empty
\* interaction_types is never rejected as invalid, and when its log write
\* succeeds it is answered with success and the one row it appended has the
\* empty interaction_types.
C18_EmptySelectionAccepted ==
  \A u \in Submissions :
    (/\ Answered(u)
     /\ body[u].participant_id # "undefined" /\ body[u].slice_id # "undefined"
     /\ body[u].interaction_types = "[]")
    => /\ reply[u].status # 400
       /\ wrote[u].log # 0 =>
            /\ reply[u].status = 200 /\ reply[u].success
            /\ annotations[wrote[u].log].interaction_types = JSONStringify("[]")
            /\ annotations[wrote[u].log].participant_id = body[u].participant_id
            /\ annotations[wrote[u].log].slice_id = body[u].slice_id
       /\ reply[u].status = 500 => wrote[u].log = 0

\* C18's case: an empty selection was logged and answered with success.
C18_Witness ==
  \E u \in Submissions :
    /\ Answered(u) /\ body[u].interaction_types = "[]"
    /\ reply[u].status = 200 /\ wrote[u].log # 0
    /\ annotations[wrote[u].log].interaction_types = "'[]'"

\* C19: on the server with the mirror, a submission whose log write
\* succeeded is answered with success whatever the mirror did, and
\* saved_to_sheets is true exactly when its row was appended to the sheet.
C19_MirrorIsAdvisory ==
  \A u \in Submissions :
    (server = "part_000" /\ Answered(u) /\ wrote[u].log # 0)
    => /\ reply[u].status = 200 /\ reply[u].success
       /\ reply[u].saved_to_sheets = "true" <=> wrote[u].sheet # 0
       /\ reply[u].saved_to_sheets \in {"true", "false"}

\* C19's case: the mirror was configured, its append failed, the log write
\* succeeded.
C19_Witness ==
  \E u \in Submissions :
    /\ server = "part_000" /\ SheetsAvailable(sheetsReady)
    /\ Answered(u) /\ wrote[u].log # 0 /\ wrote[u].sheet = 0
    /\ reply[u].status = 200 /\ reply[u].saved_to_sheets = "false"

\* C20: a submission is answered with success only if its row is in the
\* log; a valid submission whose log write failed gets the server error.
C20_SuccessMeansLogged ==
  \A u \in Submissions :
    Answered(u) =>
      /\ reply[u].status = 200 => wrote[u].log # 0
      /\ (reply[u].status # 400 /\ wrote[u].log = 0) => reply[u].status = 500

\* C29: the stored annotation_time_seconds of a logged submission is the
\* submitted value, or 0 when the body has none, and is never negative or
\* NULL; curiosity_types and routing_validation that are not in the body are
\* stored as the empty array and the empty object.
C29_OptionalFieldsDefaulted ==
  \A u \in Submissions :
    wrote[u].log # 0 =>
      LET row == annotations[wrote[u].log] IN
        /\ row.annotation_time_seconds =
             IF body[u].annotation_time_seconds = <<>> THEN <<0>>
             ELSE body[u].annotation_time_seconds
        /\ row.annotation_time_seconds # <<>>
        /\ row.annotation_time_seconds[1] >= 0
        /\ body[u].curiosity_types = "undefined" =>
             JSONParse(row.curiosity_types) = "[]"
        /\ body[u].routing_validation = "undefined" =>
             JSONParse(row.routing_validation) = "{}"

\* The annotation with index k has its (participant_id, slice_id) pair in
\* the ledger and its slice_id in the catalog.
Exportable(k) ==
  /\ \E ass \in BagToSet(assignments) :
       Name(ass[1]) = annotations[k].participant_id
         /\ Name(ass[2]) = annotations[k].slice_id
  /\ \E s \in slices : Name(s) = annotations[k].slice_id

\* The export row expected for the annotation with index k.
ExpectedRow(k) ==
  LET a == annotations[k]
      s == CHOOSE id \in slices : Name(id) = a.slice_id
  IN [participant_id |-> a.participant_id,
      slice_id |-> a.slice_id,
      conversation_id |-> ConversationId(s),
      interaction_types |-> a.interaction_types,
      curiosity_types |-> a.curiosity_types,
      routing_validation |-> a.routing_validation,
      annotation_time_seconds |-> a.annotation_time_seconds,
      submitted_at |-> a.submitted_at]

\* This step answers an export request successfully.
Exported == epc = "query" /\ exportReply'.status = 200

\* C21: a successful export has exactly one row for each annotation whose
\* pair is in the ledger and whose slice is in the catalog, with that
\* slice's conversation_id and the annotation's stored fields; the other
\* annotations contribute no row, and two annotations of one pair
\* contribute one row each.
C21_ExportIsTheJoin ==
  [][Exported =>
       \E o \in Orderings({k \in DOMAIN annotations : Exportable(k)}) :
         /\ Len(exportReply'.rows) = Len(o)
         /\ \A i \in 1..Len(o) : exportReply'.rows[i] = ExpectedRow(o[i])]_vars

\* C21's case: an export of one row while the log holds one annotation that
\* joins and one whose slice id is in neither table.
C21_Witness ==
  /\ exportReply.status = 200
  /\ Len(exportReply.rows) = 1
  /\ Len(annotations) = 2
  /\ \E k \in 1..2 : Exportable(k) /\ exportReply.rows[1] = ExpectedRow(k)
  /\ \E k \in 1..2 : annotations[k].slice_id = Name(MaxSlices + 1)

\* C22: the rows of a successful export are ordered by participant_id and,
\* within one participant, in the order in which the annotations were
\* submitted (the order of their log ids).
C22_ExportInSubmissionOrder ==
  [][Exported =>
       \E o \in Orderings({k \in DOMAIN annotations : Exportable(k)}) :
         /\ Len(exportReply'.rows) = Len(o)
         /\ \A i \in 1..Len(o) : exportReply'.rows[i] = ExpectedRow(o[i])
         /\ \A i, k \in 1..Len(o) :
              i < k =>
                /\ Rank(annotations[o[i]].participant_id)
                     <= Rank(annotations[o[k]].participant_id)
                /\ annotations[o[i]].participant_id = annotations[o[k]].participant_id
                     => o[i] < o[k]]_vars

\* C26: the ledger is append-only and only the allocator writes it: every
\* step of a slice request, a submission or an export leaves each existing
\* row present and unmodified, and a step that adds a row is the insert
\* loop of a first-time slice request adding a row of its own batch.
C26_LedgerAppendOnly ==
  [][/\ \A row \in BagToSet(assignments) :
          CopiesIn(row, assignments') >= CopiesIn(row, assignments)
     /\ assignments' # assignments =>
          \E r \in Requests :
            /\ pc[r] = "insert" /\ branch[r] = "new"
            /\ \E s \in Range(assignedSliceIds[r]) :
                 assignments' = assignments (+) SetToBag({<<participantId[r], s>>})]_vars

\* C26's case: the ledger holds a batch, its participant asked again, an
\* annotation was logged and an export was answered.
C26_Witness ==
  /\ assignments # EmptyBag
  /\ \E r \in Requests : Done(r) /\ branch[r] = "existing"
  /\ annotations # <<>>
  /\ exports > 0

\* C27: no step of an annotation submission, accepted or rejected, changes
\* the ledger or the catalog.
C27_SubmissionFrame ==
  [][apc' # apc => UNCHANGED <<assignments, slices, payload>>]_vars

\* C27's case: over a non-empty ledger, one submission was logged (and
\* mirrored) and another was rejected.
C27_Witness ==
  /\ assignments # EmptyBag
  /\ \E u, v \in Submissions :
       /\ reply[u].status = 200 /\ wrote[u].log # 0 /\ wrote[u].sheet # 0
       /\ reply[v].status = 400

\* The pair of the body is not in the ledger, or its slice_id not in the
\* catalog.
Unknown(b) ==
  \/ \A ass \in BagToSet(assignments) :
       ~(Name(ass[1]) = b.participant_id /\ Name(ass[2]) = b.slice_id)
  \/ \A s \in slices : Name(s) # b.slice_id

\* C28: a submission is rejected as a client error exactly when a required
\* field is missing, whatever the ledger and the catalog hold; a submission
\* with its required fields whose write succeeds is answered with success,
\* its row appended with the submitted ids.
C28_AcceptedWithoutLookup ==
  \A u \in Submissions :
    Answered(u) =>
      /\ reply[u].status = 400 <=> MissingField(body[u])
      /\ reply[u].status # 400 =>
           \/ reply[u].status = 500 /\ wrote[u].log = 0
           \/ /\ reply[u].status = 200
              /\ wrote[u].log # 0 =>
                   /\ annotations[wrote[u].log].participant_id = body[u].participant_id
                   /\ annotations[wrote[u].log].slice_id = body[u].slice_id

\* C28's case: over a non-empty ledger, a logged submission whose slice_id
\* is in no catalog row and one whose pair is not in the ledger.
C28_Witness ==
  /\ assignments # EmptyBag
  /\ \E u, v \in Submissions :
       /\ reply[u].status = 200 /\ wrote[u].log # 0
       /\ body[u].slice_id = Name(MaxSlices + 1)
       /\ reply[v].status = 200 /\ wrote[v].log # 0
       /\ body[v].slice_id = Name(1) /\ Unknown(body[v])

\* C23: when insertSlices returns successfully, the annotation log and the
\* ledger are empty and the catalog holds exactly one slice per input
\* record, whatever the three tables held before.
C23_ReloadReplacesEverything ==
  [][(lpc = "finish" /\ lpc' = "done") =>
       /\ annotations' = <<>>
       /\ assignments' = EmptyBag
       /\ slices' = {SliceId(records[i], i) : i \in 1..Len(records)}
       /\ Cardinality(slices') = Len(records)]_vars

\* C23's case: a successful load of two records over a store that held a
\* catalog, a batch and an annotation.
C23_Witness ==
  /\ lpc = "done"
  /\ Len(records) = MaxRecords
  /\ before.slices # {}
  /\ before.assignments # EmptyBag
  /\ before.annotations # <<>>

\* C24: when an INSERT of the load fails (duplicate slice id or storage
\* error), the store is as it was before the load: the previous slices,
\* assignments and annotations are all present.
C24_FailedReloadRestores ==
  [][(lpc = "insert" /\ lpc' = "failed") =>
       /\ slices' = before.slices
       /\ payload' = before.payload
       /\ assignments' = before.assignments
       /\ annotations' = before.annotations]_vars

\* C25: no step of the running server removes a row of the ledger, of the
\* annotation log or of the catalog; only the setup script, run by hand,
\* clears them.
C25_NoResetOverHTTP ==
  [][trigger' # "script" =>
       /\ Len(annotations') >= Len(annotations)
       /\ \A row \in BagToSet(assignments) :
            CopiesIn(row, assignments') >= CopiesIn(row, assignments)
       /\ slices \subseteq slices']_vars

\* C30: after a successful load, a slice record that a request returns has
\* the focus_turns and the hybrid_predictions of the input record it was
\* loaded from, decoded and unmodified.
C30_LoadedStructuresRoundTrip ==
  \A r \in Requests :
    (lpc = "done" /\ Done(r) /\ response[r].status = 200) =>
      \A k \in 1..Len(response[r].slices) :
        \E i \in 1..Len(records) :
          /\ SliceId(records[i], i) = response[r].slices[k].id
          /\ response[r].slices[k].focus_turns = records[i].focus_turns
          /\ response[r].slices[k].hybrid_predictions = records[i].hybrid_predictions

\* C31: the rows of the catalog have pairwise different ids in every state:
\* no load inserts two rows with one id, also when an id is derived from
\* the position of a record that has none.
C31_CatalogIdsUnique ==
  /\ \A i, k \in DOMAIN inserted : inserted[i] = inserted[k] => i = k
  /\ Range(inserted) \subseteq slices

\* C31's case: the second record has no id, and the id derived from its
\* position is the id of the row that the first record inserted.
C31_Witness ==
  /\ Len(records) = 2
  /\ records[2].id = 0
  /\ index = 2
  /\ inserted = <<SliceId(records[2], 2)>>
  /\ lpc = "failed"

\* C32: a slice request whose participant has ledger rows goes straight
\* to reading the records back (unless the ledger query fails, which is
\* answered with the server error): it reads neither the catalog ids nor
\* the counts, and none of its steps changes the ledger, the catalog or
\* the annotation log.
C32_ReturningRequestWritesNothing ==
  [][\A r \in Requests :
       /\ (pc[r] = "existing" /\ pc'[r] # pc[r]
             /\ ExistingRows(participantId[r]) # {}) =>
            /\ pc'[r] \in {"fetch", "done"}
            /\ pc'[r] = "fetch" =>
                 Range(assignedSliceIds'[r]) = ExistingRows(participantId[r])
            /\ pc'[r] = "done" => response'[r].status = 500
            /\ allSliceIds'[r] = {} /\ sliceCounts'[r] = <<>>
            /\ UNCHANGED <<assignments, slices, payload, annotations>>
       /\ (pc[r] = "fetch" /\ pc'[r] # pc[r] /\ branch[r] = "existing") =>
            UNCHANGED <<assignments, slices, payload, annotations>>]_vars

\* C32's case: a returning participant was answered while the log holds an
\* annotation.
C32_Witness ==
  /\ annotations # <<>>
  /\ \E r \in Requests :
       /\ Done(r) /\ branch[r] = "existing"
       /\ response[r].status = 200 /\ response[r].total > 0

\* C33: a step that changes the ledger is an INSERT of a first-time request
\* and changes only rows of that request's participant, by adding: the
\* rows of every other participant, the catalog and the annotation log are
\* as before.
C33_AllocationTouchesOwnRowsOnly ==
  [][assignments' # assignments =>
       /\ \E r \in Requests :
            /\ pc[r] = "insert" /\ branch[r] = "new"
            /\ \A row \in BagToSet(assignments) \cup BagToSet(assignments') :
                 row[1] # participantId[r] =>
                   CopiesIn(row, assignments') = CopiesIn(row, assignments)
       /\ \A row \in BagToSet(assignments) :
            CopiesIn(row, assignments') >= CopiesIn(row, assignments)
       /\ UNCHANGED <<slices, payload, annotations>>]_vars

\* C33's case: two participants hold a batch each, and the batches share a
\* slice.
C33_Witness ==
  \E r, q \in Requests :
    /\ participantId[r] # participantId[q]
    /\ Done(r) /\ Done(q)
    /\ branch[r] = "new" /\ branch[q] = "new"
    /\ written[r] \cap written[q] # {}
    /\ \A s \in written[r] : BagIn(<<participantId[r], s>>, assignments)
    /\ \A s \in written[q] : BagIn(<<participantId[q], s>>, assignments)

\* C34: in every state, also while a load interleaves with a slice request,
\* the slice_id of every ledger row is the id of a catalog row, and no
\* request fails for an assigned id that the catalog lacks.
C34_LedgerRefersToCatalog ==
  /\ \A row \in BagToSet(assignments) : row[2] \in slices
  /\ \A r \in Requests : response[r].error # "TypeError"

\* C36: the start-up block resets and seeds the store only when the catalog
\* is empty; over a catalog that has rows it changes no slice, assignment or
\* annotation; and the ledger that the seeding clears holds no row that a
\* request of this run has written.
C36_SeedingOnlyWhenEmpty ==
  [][/\ (lpc = "idle" /\ lpc' = "annotations") => slices = {}
     /\ (lpc = "idle" /\ lpc' # "idle" /\ slices # {}) =>
          /\ lpc' = "done"
          /\ UNCHANGED <<slices, payload, assignments, annotations>>
     /\ (lpc = "assignments" /\ lpc' # lpc) =>
          \A r \in Requests : \A s \in written[r] :
            <<participantId[r], s>> \notin BagToSet(assignments)]_vars

\* The seeding is in progress, and a request served after it began has been
\* answered with a batch whose rows are in the ledger.
C36_Witness ==
  /\ trigger = "startup" /\ lpc = "insert"
  /\ \E r \in Requests :
       /\ Done(r) /\ branch[r] = "new" /\ response[r].status = 200
       /\ written[r] # {}
       /\ \A s \in written[r] : <<participantId[r], s>> \in BagToSet(assignments)

\* C35: provided every storage call returns, every received request is
\* answered in the end, whatever its body, also when interaction_types is
\* present and null.
C35_EverySubmissionAnswered ==
  \A u \in Submissions : (apc[u] # "idle") ~> (apc[u] = "done")

\* The ids whose count is the count of the last place of a batch, when they
\* are more than the places the ids of smaller count leave.
TiedAtBoundary(counts) ==
  LET ids == DOMAIN counts
      Below(c) == {s \in ids : counts[s] < c}
      UpTo(c) == {s \in ids : counts[s] <= c}
      tied == {s \in ids :
                 /\ Cardinality(Below(counts[s])) < SLICES_PER_PARTICIPANT
                 /\ Cardinality(UpTo(counts[s])) > SLICES_PER_PARTICIPANT}
  IN tied

EveryTiedSliceSelected(counts, batches) ==
  \A s \in TiedAtBoundary(counts) : \E batch \in batches : s \in Range(batch)

\* C37: when a first-time allocation is about to choose its batch and the
\* ids that share the boundary count are more than the places left, each of
\* them is in the batch of some execution, whatever order the storage
\* returned its rows in.
C37_EveryTiedSliceSelectable ==
  \A r \in Requests :
    pc[r] = "counts" =>
      LET counts == ZeroFilled(getSliceCounts, allSliceIds[r]) IN
        \A keys \in ObjectKeys(getSliceCounts, allSliceIds[r]) :
          EveryTiedSliceSelected(counts, LegacyBatches(keys, counts))

\* C38: the mirror's saveAnnotation always returns a boolean to the handler;
\* it returns false without calling the spreadsheet service when the client
\* or the sheet id is missing, false when the append it made failed, and
\* true only when the append it made put the row on the sheet.
C38_SaveAnnotationNeverRaises ==
  [][\A u \in Submissions :
       (apc[u] = "mirror" /\ apc'[u] # "mirror") =>
         /\ apc'[u] = "backup"
         /\ sheetsSaved'[u] \in BOOLEAN
         /\ (~sheetsReady.sheets \/ ~sheetsReady.spreadsheetId) =>
              /\ sheetsSaved'[u] = FALSE
              /\ wrote'[u].appends = wrote[u].appends
              /\ sheet' = sheet
         /\ sheetsSaved'[u] = TRUE =>
              /\ wrote'[u].appends = wrote[u].appends + 1
              /\ sheet' = Append(sheet, SheetRow(body[u]))
         /\ (wrote'[u].appends # wrote[u].appends /\ sheet' = sheet) =>
              sheetsSaved'[u] = FALSE]_vars

\* The client was built but no sheet id is set: a submission came back from
\* the mirror with false and no append was made.
C38_Witness ==
  \E u \in Submissions :
    /\ sheetsReady.sheets /\ ~sheetsReady.spreadsheetId
    /\ apc[u] = "backup" /\ sheetsSaved[u] = FALSE
    /\ wrote[u].appends = 0 /\ sheet = <<>>

====
